---- MODULE Spec2Model ----
(***************************************************************************)
(* Byte-order normalisation of awkward-cpp (array/awk_util.h): the six     *)
(* swap primitives, isNative and the makeNative overloads.                 *)
(*                                                                         *)
(* A C++ integer value is a record [signed, b]: b is the sequence of its   *)
(* bytes, least significant first (b[1] is byte 0).  Its length is the     *)
(* size of its C++ type, so the integer promotions, the usual arithmetic   *)
(* conversions and the truncation of a return value are all explicit.      *)
(* Memory is the sequence of its bytes, address 0 first; a load or store  *)
(* of an element goes through the host's byte order.                      *)
(***************************************************************************)
EXTENDS Integers, Sequences, FiniteSets, TLC

\* ------------------------------------------------------------ bounds
\* Largest shape[0] of a buffer handed to makeNative.
MaxCount == 4
\* Largest number of padding bytes between two elements (stride - itemsize).
MaxPad == 2
\* Largest number of bytes the underlying block has beyond count * stride.
MaxSlack == 1
\* Largest number of consecutive makeNative calls on one buffer.
MaxCalls == 2
\* Largest number of times a swap primitive is applied to its own result.
MaxApply == 2

Byte == 0..255

\* ------------------------------------------------- C++ integer arithmetic
RECURSIVE BitAnd(_, _)
BitAnd(a, b) ==
    IF a = 0 \/ b = 0 THEN 0
    ELSE (a % 2) * (b % 2) + 2 * BitAnd(a \div 2, b \div 2)

RECURSIVE BitOr(_, _)
BitOr(a, b) ==
    IF a = 0 THEN b
    ELSE IF b = 0 THEN a
    ELSE (IF a % 2 = 1 \/ b % 2 = 1 THEN 1 ELSE 0) + 2 * BitOr(a \div 2, b \div 2)

Max(a, b) == IF a >= b THEN a ELSE b

\* A value of a signed type is negative when its top bit is set.
Negative(v) == v.signed /\ v.b[Len(v.b)] >= 128

\* The byte that fills the new high bytes when v is widened or shifted right.
Fill(v) == IF Negative(v) THEN 255 ELSE 0

\* Conversion of v to the integer type of n bytes and the given signedness:
\* sign or zero extension by the SOURCE type, truncation modulo 2^(8n).
Conv(v, signed, n) ==
    [signed |-> signed,
     b |-> [j \in 1..n |-> IF j <= Len(v.b) THEN v.b[j] ELSE Fill(v)]]

\* Integer promotion: a type narrower than int becomes int (4 bytes, signed).
Promote(v) == IF Len(v.b) < 4 THEN Conv(v, TRUE, 4) ELSE v

\* v << 8k in v's promoted type.  For a signed operand the result is the
\* two's complement bit pattern (what C++20 defines and GCC, Clang and MSVC
\* produce under the earlier standards).
Shl(v, k) ==
    LET p == Promote(v)
        n == Len(p.b)
    IN [signed |-> p.signed,
        b |-> [j \in 1..n |-> IF j > k THEN p.b[j - k] ELSE 0]]

\* v >> 8k in v's promoted type: arithmetic for a signed operand.
Shr(v, k) ==
    LET p == Promote(v)
        n == Len(p.b)
    IN [signed |-> p.signed,
        b |-> [j \in 1..n |-> IF j + k <= n THEN p.b[j + k] ELSE Fill(p)]]

\* The common type of a binary operator: the wider operand's type; at equal
\* width unsigned wins.
CommonSigned(p, q) ==
    IF Len(p.b) > Len(q.b) THEN p.signed
    ELSE IF Len(q.b) > Len(p.b) THEN q.signed
    ELSE p.signed /\ q.signed

And(v, w) ==
    LET p == Promote(v)
        q == Promote(w)
        n == Max(Len(p.b), Len(q.b))
        s == CommonSigned(p, q)
    IN [signed |-> s,
        b |-> [j \in 1..n |-> BitAnd(Conv(p, s, n).b[j], Conv(q, s, n).b[j])]]

Or(v, w) ==
    LET p == Promote(v)
        q == Promote(w)
        n == Max(Len(p.b), Len(q.b))
        s == CommonSigned(p, q)
    IN [signed |-> s,
        b |-> [j \in 1..n |-> BitOr(Conv(p, s, n).b[j], Conv(q, s, n).b[j])]]

\* Integer literals of the source, with the type C++ gives them.
Lit_0xFF == [signed |-> TRUE, b |-> <<255, 0, 0, 0>>]
Lit_0xFFFF == [signed |-> TRUE, b |-> <<255, 255, 0, 0>>]
Lit_0xFF00FF == [signed |-> TRUE, b |-> <<255, 0, 255, 0>>]
Lit_0xFF00FF00 == [signed |-> FALSE, b |-> <<0, 255, 0, 255>>]
Lit_0xFF00FF00FF00FF00ULL ==
    [signed |-> FALSE, b |-> <<0, 255, 0, 255, 0, 255, 0, 255>>]
Lit_0x00FF00FF00FF00FFULL ==
    [signed |-> FALSE, b |-> <<255, 0, 255, 0, 255, 0, 255, 0>>]
Lit_0xFFFF0000FFFF0000ULL ==
    [signed |-> FALSE, b |-> <<0, 0, 255, 255, 0, 0, 255, 255>>]
Lit_0x0000FFFF0000FFFFULL ==
    [signed |-> FALSE, b |-> <<255, 255, 0, 0, 255, 255, 0, 0>>]
Lit_0xFFFFFFFFULL ==
    [signed |-> FALSE, b |-> <<255, 255, 255, 255, 0, 0, 0, 0>>]

\* ------------------------------------------------------- swap primitives
\* Each takes and returns a value of its parameter type.

swap_uint16(val) ==
    Conv(Or(Shl(val, 1), Shr(val, 1)), FALSE, 2)

\* swap_int16 without the "& 0xFF" on the right-shifted half.
swap_int16_nomask(val) ==
    Conv(Or(Shl(val, 1), Shr(val, 1)), TRUE, 2)

swap_int16(val) ==
    Conv(Or(Shl(val, 1), And(Shr(val, 1), Lit_0xFF)), TRUE, 2)

\* The left operands of the "<<" of swap_int16, after promotion.
shl_int16(val) == << [v |-> Promote(val), k |-> 1] >>

swap_uint32(val) ==
    LET val1 == Conv(Or(And(Shl(val, 1), Lit_0xFF00FF00),
                        And(Shr(val, 1), Lit_0xFF00FF)), FALSE, 4)
    IN Conv(Or(Shl(val1, 2), Shr(val1, 2)), FALSE, 4)

\* swap_int32 that stops after exchanging the bytes of each 16-bit half.
swap_int32_halfway(val) ==
    Conv(Or(And(Shl(val, 1), Lit_0xFF00FF00),
            And(Shr(val, 1), Lit_0xFF00FF)), TRUE, 4)

swap_int32(val) ==
    LET val1 == Conv(Or(And(Shl(val, 1), Lit_0xFF00FF00),
                        And(Shr(val, 1), Lit_0xFF00FF)), TRUE, 4)
    IN Conv(Or(Shl(val1, 2), And(Shr(val1, 2), Lit_0xFFFF)), TRUE, 4)

shl_int32(val) ==
    LET val1 == Conv(Or(And(Shl(val, 1), Lit_0xFF00FF00),
                        And(Shr(val, 1), Lit_0xFF00FF)), TRUE, 4)
    IN << [v |-> Promote(val), k |-> 1], [v |-> Promote(val1), k |-> 2] >>

swap_uint64(val) ==
    LET val1 == Conv(Or(And(Shl(val, 1), Lit_0xFF00FF00FF00FF00ULL),
                        And(Shr(val, 1), Lit_0x00FF00FF00FF00FFULL)), FALSE, 8)
        val2 == Conv(Or(And(Shl(val1, 2), Lit_0xFFFF0000FFFF0000ULL),
                        And(Shr(val1, 2), Lit_0x0000FFFF0000FFFFULL)), FALSE, 8)
    IN Conv(Or(Shl(val2, 4), Shr(val2, 4)), FALSE, 8)

swap_int64(val) ==
    LET val1 == Conv(Or(And(Shl(val, 1), Lit_0xFF00FF00FF00FF00ULL),
                        And(Shr(val, 1), Lit_0x00FF00FF00FF00FFULL)), TRUE, 8)
        val2 == Conv(Or(And(Shl(val1, 2), Lit_0xFFFF0000FFFF0000ULL),
                        And(Shr(val1, 2), Lit_0x0000FFFF0000FFFFULL)), TRUE, 8)
    IN Conv(Or(Shl(val2, 4), And(Shr(val2, 4), Lit_0xFFFFFFFFULL)), TRUE, 8)

shl_int64(val) ==
    LET val1 == Conv(Or(And(Shl(val, 1), Lit_0xFF00FF00FF00FF00ULL),
                        And(Shr(val, 1), Lit_0x00FF00FF00FF00FFULL)), TRUE, 8)
        val2 == Conv(Or(And(Shl(val1, 2), Lit_0xFFFF0000FFFF0000ULL),
                        And(Shr(val1, 2), Lit_0x0000FFFF0000FFFFULL)), TRUE, 8)
    IN << [v |-> Promote(val), k |-> 1], [v |-> Promote(val1), k |-> 2],
          [v |-> Promote(val2), k |-> 4] >>

\* The element types of the makeNative overloads.
Types == {"uint8", "int8", "uint16", "int16", "uint32", "int32", "uint64", "int64"}
Prims == Types \ {"uint8", "int8"}

ItemSize(T) ==
    CASE T \in {"uint8", "int8"} -> 1
      [] T \in {"uint16", "int16"} -> 2
      [] T \in {"uint32", "int32"} -> 4
      [] T \in {"uint64", "int64"} -> 8

IsSigned(T) == T \in {"int8", "int16", "int32", "int64"}

\* Overload resolution: the primitive each makeNative overload applies.
Swap(T, val) ==
    CASE T = "uint16" -> swap_uint16(val)
      [] T = "int16" -> swap_int16(val)
      [] T = "uint32" -> swap_uint32(val)
      [] T = "int32" -> swap_int32(val)
      [] T = "uint64" -> swap_uint64(val)
      [] T = "int64" -> swap_int64(val)

\* The "<<" operands a signed primitive evaluates on val.
ShlOperands(T, val) ==
    CASE T = "int16" -> shl_int16(val)
      [] T = "int32" -> shl_int32(val)
      [] T = "int64" -> shl_int64(val)
      [] OTHER -> << >>

\* ------------------------------------------------------- the buffer
\* Bytes of the address space the model keeps: the underlying block of the
\* buffer starts at address 0 (the base pointer), and the bytes after the
\* block belong to other objects.  Wide enough for every address a call
\* computes within the bounds.
MemLen == MaxCount * (8 + MaxPad) + MaxSlack + MaxCount * MaxCount + 8

\* Memory is the sequence of its bytes: the byte at address a is m[a + 1].
At(m, a) == m[a + 1]

\* The bytes of value bytes v (least significant first) as the host lays
\* them out in memory, lowest address first; also the inverse.
HostLayout(v, h) ==
    [j \in 1..Len(v) |-> IF h = "little" THEN v[j] ELSE v[Len(v) + 1 - j]]

\* *(T*)(ptr + a): the value of the W bytes at address a.
Load(m, a, W, h) == HostLayout([j \in 1..W |-> At(m, a + j - 1)], h)

\* *(T*)(ptr + a) = v.
Store(m, a, v, h) ==
    [c \in DOMAIN m |->
        IF c - 1 >= a /\ c - 1 < a + Len(v) THEN HostLayout(v, h)[c - a]
        ELSE m[c]]

\* isNative that takes a first byte of 4 for a big-endian host.
isNative_c0is4(h, chr) ==
    LET c == HostLayout(<<4, 3, 2, 1>>, h)
    IN (c[1] = 4 /\ chr # "<") \/ (c[1] # 4 /\ chr # ">")

\* isNative with the two tag characters exchanged.
isNative_tagswapped(h, chr) ==
    LET c == HostLayout(<<4, 3, 2, 1>>, h)
    IN (c[1] = 1 /\ chr # ">") \/ (c[1] # 1 /\ chr # "<")

\* bint.c[0] is the first byte in memory of 0x01020304.
isNative(h, chr) ==
    LET c == HostLayout(<<4, 3, 2, 1>>, h)
    IN (c[1] = 1 /\ chr # "<") \/ (c[1] # 1 /\ chr # ">")

\* The byte address of array_ptr[i * N] relative to array_info.ptr.
ElemAddr(i, N, W) == i * N * W

\* Iterations i .. upto-1 of the loop of a multi-byte overload.
RECURSIVE SwapPass(_, _, _, _, _, _)
SwapPass(m, i, upto, N, T, h) ==
    IF i >= upto THEN m
    ELSE LET W == ItemSize(T)
             a == ElemAddr(i, N, W)
             old == [signed |-> IsSigned(T), b |-> Load(m, a, W, h)]
         IN SwapPass(Store(m, a, Swap(T, old).b, h), i + 1, upto, N, T, h)

\* A buffer is [mem, host, ch, shape0, blockLen]: the memory, the host's byte
\* order, format.at(0), shape[0] and the length of the underlying block.
\* Each overload gives the set of outcomes [status, mem, ch, trace] of a
\* call: how it ended, the memory and the tag it leaves, and the byte
\* addresses it accessed, in order.

\* The 16/32/64-bit overloads.  An access that does not lie in the
\* underlying block is undefined: the call either faults there or goes on,
\* reading and writing the bytes of whatever follows the block.
makeNative_multi(T, buf) ==
    IF isNative(buf.host, buf.ch)
    THEN {[status |-> "returned", mem |-> buf.mem, ch |-> buf.ch,
           trace |-> << >>]}
    ELSE LET W == ItemSize(T)
             N == buf.shape0 \div W
             size == buf.shape0
             addrs == [i \in 1..size |-> ElemAddr(i - 1, N, W)]
             out == {i \in 1..size : addrs[i] + W > buf.blockLen}
             first == CHOOSE i \in out : \A j \in out : i <= j
         IN {[status |-> "returned",
              mem |-> SwapPass(buf.mem, 0, size, N, T, buf.host),
              ch |-> buf.ch,
              trace |-> addrs]}
            \cup
            (IF out = {} THEN {}
             ELSE {[status |-> "crashed",
                    mem |-> SwapPass(buf.mem, 0, first - 1, N, T, buf.host),
                    ch |-> buf.ch,
                    trace |-> SubSeq(addrs, 1, first)]})

\* A 1-byte overload written as a copy of the uint16 one.
makeNative_byte_as16(buf) == makeNative_multi("uint16", buf)

\* makeNative(py::array_t<std::uint8_t>) and (py::array_t<std::int8_t>).
makeNative_byte(buf) ==
    {[status |-> "returned", mem |-> buf.mem, ch |-> buf.ch, trace |-> << >>]}

\* makeNative that marks the buffer native once it has run.
makeNative_retag(T, buf) ==
    {[o EXCEPT !.ch = "="] :
        o \in IF ItemSize(T) = 1 THEN makeNative_byte(buf)
              ELSE makeNative_multi(T, buf)}

makeNative(T, buf) ==
    IF ItemSize(T) = 1 THEN makeNative_byte(buf) ELSE makeNative_multi(T, buf)

\* ------------------------------------------------------------ state
VARIABLES
    host,      \* the byte order of the executing machine
    dtype,     \* the element type of the buffer (selects the overload)
    ch,        \* format.at(0): the declared byte-order tag
    shape0,    \* shape[0], which is also size: the buffer is 1-D
    stride,    \* strides[0], in bytes
    blockLen,  \* length in bytes of the underlying memory block
    mem,       \* the bytes of the address space
    status,    \* "ready", or how the last makeNative call ended
    lastOp,    \* the last operation called on the buffer
    ret,       \* what the last isNative call returned
    calls,     \* makeNative calls made so far
    ch0,       \* history: the tag at construction
    mem0,      \* history: the memory at construction
    memPrev,   \* history: the memory before the last operation
    trace,     \* history: byte addresses the last makeNative call accessed
    nswaps,    \* history: elements swapped by all makeNative calls so far
    prim,      \* the swap primitive under evaluation
    x,         \* its first argument
    y,         \* its latest result
    shifts,    \* history: the "<<" operands of its latest evaluation
    napplied   \* times it has been applied, each time to its last result

bufVars ==
    <<host, dtype, ch, shape0, stride, blockLen, mem, status, lastOp, ret,
      calls, ch0, mem0, memPrev, trace, nswaps>>

primVars == <<prim, x, y, shifts, napplied>>

vars == <<bufVars, primVars>>

Hosts == {"little", "big"}

\* '<', '>' and '=' (native), as they stand first in a format string.
Tags == {"<", ">", "="}

\* Initial memory contents: 01 02 03 ..., and FF FE FD ... (top bits set).
Patterns ==
    {[c \in 1..MemLen |-> c % 256], [c \in 1..MemLen |-> (256 - c) % 256]}

\* ------------------------------------------------- makeNative on buffers
\* A well-formed 1-D descriptor over a block that holds it.
InitBuffer ==
    /\ host \in Hosts
    /\ dtype \in Types
    /\ ch \in Tags
    /\ shape0 \in 0..MaxCount
    /\ stride \in ItemSize(dtype)..(ItemSize(dtype) + MaxPad)
    /\ blockLen \in (shape0 * stride)..(shape0 * stride + MaxSlack)
    /\ mem \in Patterns
    /\ status = "ready"
    /\ lastOp = "none"
    /\ ret = FALSE
    /\ calls = 0
    /\ ch0 = ch
    /\ mem0 = mem
    /\ memPrev = mem
    /\ trace = << >>
    /\ nswaps = 0

NoPrim ==
    /\ prim = "none"
    /\ x = << >>
    /\ y = << >>
    /\ shifts = << >>
    /\ napplied = 0

Init == InitBuffer /\ NoPrim

Buffer ==
    [mem |-> mem, host |-> host, ch |-> ch, shape0 |-> shape0,
     blockLen |-> blockLen]

\* A call of isNative(input).
IsNativeCall ==
    /\ status # "crashed"
    /\ lastOp # "isNative"
    /\ ret' = isNative(host, ch)
    /\ lastOp' = "isNative"
    /\ memPrev' = mem
    /\ UNCHANGED <<host, dtype, ch, shape0, stride, blockLen, mem, status,
                   calls, ch0, mem0, trace, nswaps>>
    /\ UNCHANGED primVars

\* A call of makeNative(input), resolved by the element type.
MakeNativeCall ==
    /\ status # "crashed"
    /\ calls < MaxCalls
    /\ \E o \in makeNative(dtype, Buffer) :
         /\ mem' = o.mem
         /\ ch' = o.ch
         /\ status' = o.status
         /\ trace' = o.trace
         /\ nswaps' = nswaps + (IF o.status = "returned" THEN Len(o.trace)
                                ELSE Len(o.trace) - 1)
    /\ lastOp' = "makeNative"
    /\ memPrev' = mem
    /\ calls' = calls + 1
    /\ UNCHANGED <<host, dtype, shape0, stride, blockLen, ret, ch0, mem0>>
    /\ UNCHANGED primVars

Next == IsNativeCall \/ MakeNativeCall

Spec == Init /\ [][Next]_vars

\* ------------------------------------------------- the primitives alone
\* Byte values the arguments are built from: 00, 80, FF reach zero, -1 and
\* the minimum of every width.
InputBytes == {0, 128, 255}

\* Arguments of width W: every word over InputBytes; two words whose bytes
\* are pairwise different (01 02 .., 81 92 ..); the maximum 7F FF .. FF of
\* the signed type and its byte-reversed image.
Inputs(W) ==
    {v \in [1..W -> InputBytes] : TRUE}
    \cup {[j \in 1..W |-> j], [j \in 1..W |-> 112 + 17 * j],
          [j \in 1..W |-> IF j = W THEN 127 ELSE 255],
          [j \in 1..W |-> IF j = 1 THEN 127 ELSE 255]}

NoBuffer ==
    /\ host = "little"
    /\ dtype = "uint8"
    /\ ch = "="
    /\ shape0 = 0
    /\ stride = 1
    /\ blockLen = 0
    /\ mem = << >>
    /\ status = "ready"
    /\ lastOp = "none"
    /\ ret = FALSE
    /\ calls = 0
    /\ ch0 = ch
    /\ mem0 = mem
    /\ memPrev = mem
    /\ trace = << >>
    /\ nswaps = 0

InitSwap == NoBuffer /\ NoPrim

\* swap_T(v) for an argument v.
FirstSwap ==
    /\ napplied = 0
    /\ \E T \in Prims :
         \E v \in Inputs(ItemSize(T)) :
            LET val == [signed |-> IsSigned(T), b |-> v]
            IN /\ prim' = T
               /\ x' = v
               /\ y' = Swap(T, val).b
               /\ shifts' = ShlOperands(T, val)
    /\ napplied' = 1
    /\ UNCHANGED bufVars

\* swap_T applied to its own last result.
SwapAgain ==
    /\ napplied >= 1
    /\ napplied < MaxApply
    /\ LET val == [signed |-> IsSigned(prim), b |-> y]
       IN /\ y' = Swap(prim, val).b
          /\ shifts' = ShlOperands(prim, val)
    /\ napplied' = napplied + 1
    /\ UNCHANGED <<prim, x>>
    /\ UNCHANGED bufVars

NextSwap == FirstSwap \/ SwapAgain

SpecSwap == InitSwap /\ [][NextSwap]_vars

\* ------------------------------------------------------------ claims
\* The declared tag against the host order, by the decision table.
TagEqualsHost ==
    \/ ch0 = "<" /\ host = "little"
    \/ ch0 = ">" /\ host = "big"

TagDiffersFromHost ==
    \/ ch0 = "<" /\ host = "big"
    \/ ch0 = ">" /\ host = "little"

\* Byte a lies in one of the shape0 elements of the strided view.
InElement(a) ==
    \E i \in 0..(shape0 - 1) : a >= i * stride /\ a < i * stride + ItemSize(dtype)

\* C1: a multi-byte makeNative on a non-native-tagged buffer accesses, in
\* iteration i, exactly the element at base + i * stride, and leaves each of
\* the shape0 elements byte-swapped exactly once.
C1_EveryElementSwappedOnce ==
    (lastOp = "makeNative" /\ calls = 1 /\ status = "returned"
        /\ ItemSize(dtype) > 1 /\ TagDiffersFromHost)
    => /\ trace = [i \in 1..shape0 |-> (i - 1) * stride]
       /\ \A i \in 0..(shape0 - 1) : \A k \in 0..(ItemSize(dtype) - 1) :
             At(mem, i * stride + k)
                = At(memPrev, i * stride + ItemSize(dtype) - 1 - k)

\* C2: on a buffer whose tag equals the host order (or is '='), makeNative of
\* any width writes nothing, however often it is called.
C2_NativeBufferUntouched ==
    (TagEqualsHost \/ ch0 = "=")
    => /\ mem = mem0
       /\ trace = << >>
       /\ nswaps = 0
       /\ status # "crashed"

C2_Witness ==
    /\ TagEqualsHost
    /\ calls = 2
    /\ lastOp = "makeNative"
    /\ dtype = "int64"
    /\ shape0 >= 2

\* C3: the result of each swap primitive has the width of its argument and
\* its byte j is byte W-1-j of the argument.
C3_BytesReversed ==
    (napplied = 1)
    => /\ Len(y) = ItemSize(prim)
       /\ \A j \in 1..Len(y) : y[j] \in Byte /\ y[j] = x[Len(x) + 1 - j]

\* The signed minimum of swap_int64, 0x8000000000000000, gives 0x80.
C3_Witness ==
    /\ napplied = 1
    /\ prim = "int64"
    /\ x = <<0, 0, 0, 0, 0, 0, 0, 128>>
    /\ y = <<128, 0, 0, 0, 0, 0, 0, 0>>

\* C4: with stride > itemsize, a multi-byte makeNative on a non-native-tagged
\* buffer leaves every byte of the block that lies in no element as it was.
C4_PaddingUntouched ==
    (lastOp = "makeNative" /\ status = "returned" /\ ItemSize(dtype) > 1
        /\ TagDiffersFromHost /\ stride > ItemSize(dtype))
    => \A a \in 0..(blockLen - 1) : ~InElement(a) => At(mem, a) = At(memPrev, a)

\* C5: isNative returns true for '<' on a little-endian host and '>' on a
\* big-endian host, false for the two mismatches, and changes nothing.
C5_IsNativeDecisionTable ==
    (lastOp = "isNative")
    => /\ TagEqualsHost => ret = TRUE
       /\ TagDiffersFromHost => ret = FALSE
       /\ mem = memPrev
       /\ ch = ch0

C5_Witness ==
    /\ lastOp = "isNative"
    /\ calls = 0
    /\ host = "big"
    /\ ch = "<"
    /\ ret = FALSE
    /\ shape0 > 0

\* C6: each swap primitive applied twice gives the argument back.
C6_Involution ==
    (napplied = 2) => y = x

\* swap_int16 on the signed maximum 0x7FFF, whose image 0xFF7F is negative.
C6_Witness ==
    /\ napplied = 2
    /\ prim = "int16"
    /\ x = <<255, 127>>
    /\ y = x

\* C7: makeNative on a 1-byte element buffer writes nothing, whatever the
\* tag and the host.
C7_ByteBufferUntouched ==
    (ItemSize(dtype) = 1)
    => /\ mem = mem0
       /\ trace = << >>
       /\ nswaps = 0
       /\ status # "crashed"

C7_Witness ==
    /\ ItemSize(dtype) = 1
    /\ TagDiffersFromHost
    /\ lastOp = "makeNative"
    /\ calls = 2
    /\ shape0 >= 2

\* C8: every address a multi-byte makeNative accesses lies inside
\* [base, base + shape0 * stride).
C8_AccessesInsideBuffer ==
    (lastOp = "makeNative" /\ ItemSize(dtype) > 1)
    => \A j \in 1..Len(trace) :
          trace[j] >= 0 /\ trace[j] + ItemSize(dtype) <= shape0 * stride

\* C9: makeNative leaves the tag as it was, so on a non-native-tagged buffer
\* every call runs the swap pass, and the second of two calls returns every
\* byte to its value before the first.
C9_SecondCallUndoesFirst ==
    (ItemSize(dtype) > 1 /\ TagDiffersFromHost /\ status # "crashed")
    => /\ ch = ch0
       /\ nswaps = calls * shape0
       /\ (lastOp = "makeNative" => Len(trace) = shape0)
       /\ (calls = 2 => mem = mem0)

C9_Witness ==
    /\ ItemSize(dtype) > 1
    /\ TagDiffersFromHost
    /\ status = "returned"
    /\ lastOp = "makeNative"
    /\ calls = 2
    /\ shape0 >= 2
    /\ memPrev # mem
    /\ mem = mem0

\* A signed "<<" whose left operand is negative.
ShlOfNegative(s) == s.v.signed /\ Negative(s.v)

\* A signed "<<" of a non-negative operand whose result exceeds the type.
ShlOutOfRange(s) ==
    /\ s.v.signed
    /\ ~Negative(s.v)
    /\ \/ \E j \in 1..Len(s.v.b) : j > Len(s.v.b) - s.k /\ s.v.b[j] # 0
       \/ s.v.b[Len(s.v.b) - s.k] >= 128

\* C10: the signed swap primitives never shift a negative signed operand
\* left, and no signed left shift leaves the range of its type.
C10_NoSignedLeftShiftHazard ==
    (napplied >= 1 /\ IsSigned(prim))
    => \A j \in 1..Len(shifts) :
          ~ShlOfNegative(shifts[j]) /\ ~ShlOutOfRange(shifts[j])

====
